---- MODULE Spec2Model ----
(***************************************************************************)
(* osu!mania -> Vectra map.lua converter (src/main.py).                    *)
(*                                                                         *)
(* The converter is a straight pipeline: parse_osu_hitobjects walks the    *)
(* lines of the chart, main sorts the notes by time, generate_map_lua      *)
(* computes the chart length and renders one tuple per note through        *)
(* map_column_x_to_Vectra_x.  Lines are TLA+ strings and every test the    *)
(* parser makes (strip, startswith, split, int, re.match) is computed on   *)
(* the characters of the line.                                             *)
(***************************************************************************)
EXTENDS Integers, Sequences, FiniteSets, TLC

VARIABLES lines, i, section, hitobjects, timing_points, pc, keys, notes, lua,
          mx, mkeys, mr, mpx, mprev

vars == <<lines, i, section, hitobjects, timing_points, pc, keys, notes, lua,
          mx, mkeys, mr, mpx, mprev>>

parseVars == <<lines, i, section, hitobjects, timing_points, pc, keys, notes, lua>>
mapVars == <<mx, mkeys, mr, mpx, mprev>>

(***************************************************************************)
(* Bounds of the model.                                                    *)
(***************************************************************************)
MaxLines == 4
MaxKeys == 8
MaxOut == 80

(***************************************************************************)
(* Program constants.                                                      *)
(***************************************************************************)
osu_playfield_width == 512
DefaultKeys == 4
HoldFlag == 128
NoteType == 1
NoteSpeed == 400
SliderLen == 0

(***************************************************************************)
(* Python's None, and a present value, as sequences of length 0 and 1.     *)
(***************************************************************************)
None == <<>>
Some(v) == <<v>>

(***************************************************************************)
(* String primitives, computed on characters.                              *)
(***************************************************************************)
Ch(s, k) == SubSeq(s, k, k)

Digits == {"0", "1", "2", "3", "4", "5", "6", "7", "8", "9"}

DigitVal(c) ==
  CASE c = "0" -> 0 [] c = "1" -> 1 [] c = "2" -> 2 [] c = "3" -> 3
    [] c = "4" -> 4 [] c = "5" -> 5 [] c = "6" -> 6 [] c = "7" -> 7
    [] c = "8" -> 8 [] c = "9" -> 9

IsSpace(c) == c = " "

RECURSIVE lstrip(_)
lstrip(s) ==
  IF Len(s) > 0 /\ IsSpace(Ch(s, 1)) THEN lstrip(SubSeq(s, 2, Len(s))) ELSE s

RECURSIVE rstrip(_)
rstrip(s) ==
  IF Len(s) > 0 /\ IsSpace(Ch(s, Len(s))) THEN rstrip(SubSeq(s, 1, Len(s) - 1)) ELSE s

strip(s) == rstrip(lstrip(s))

startswith(s, p) == Len(s) >= Len(p) /\ SubSeq(s, 1, Len(p)) = p

endswith(s, p) == Len(s) >= Len(p) /\ SubSeq(s, Len(s) - Len(p) + 1, Len(s)) = p

\* str.split(','): the fields between the commas; a string without a comma
\* (the empty string included) is one field.
RECURSIVE splitFrom(_, _, _)
splitFrom(s, k, start) ==
  IF k > Len(s) THEN <<SubSeq(s, start, Len(s))>>
  ELSE IF Ch(s, k) = ","
       THEN <<SubSeq(s, start, k - 1)>> \o splitFrom(s, k + 1, k + 1)
       ELSE splitFrom(s, k + 1, start)

split(s) == splitFrom(s, 1, 1)

\* The length of the longest prefix of s made of decimal digits.
RECURSIVE digitRun(_, _)
digitRun(s, k) ==
  IF k <= Len(s) /\ Ch(s, k) \in Digits THEN digitRun(s, k + 1) ELSE k - 1

\* The value of a string of decimal digits.
RECURSIVE digitsValue(_)
digitsValue(s) ==
  IF Len(s) = 0 THEN 0
  ELSE 10 * digitsValue(SubSeq(s, 1, Len(s) - 1)) + DigitVal(Ch(s, Len(s)))

\* int(str): surrounding whitespace is dropped, one sign is allowed, the rest
\* must be a non-empty run of digits; anything else is a ValueError.
int(s) ==
  LET t == strip(s)
      signed == Len(t) > 0 /\ Ch(t, 1) \in {"+", "-"}
      body == IF signed THEN SubSeq(t, 2, Len(t)) ELSE t
      ok == Len(body) > 0 /\ digitRun(body, 1) = Len(body)
  IN  IF ~ok THEN [ok |-> FALSE, val |-> 0]
      ELSE [ok |-> TRUE,
            val |-> IF signed /\ Ch(t, 1) = "-" THEN 0 - digitsValue(body)
                    ELSE digitsValue(body)]

\* re.match(r"(\d+):", obj): group 1 when obj starts with digits and a colon.
re_match(obj) ==
  LET n == digitRun(obj, 1)
  IN  IF n >= 1 /\ n < Len(obj) /\ Ch(obj, n + 1) = ":"
      THEN Some(SubSeq(obj, 1, n)) ELSE None

\* type_val & 128 on Python's unbounded two's-complement integers.
BitAnd128(v) == IF (v \div HoldFlag) % 2 = 1 THEN HoldFlag ELSE 0

(***************************************************************************)
(* parse_osu_hitobjects: the body of the loop over the lines.              *)
(***************************************************************************)
HitObjectsName == "HitObjects"
TimingPointsName == "TimingPoints"

IsBlankOrComment(ln) == Len(ln) = 0 \/ startswith(ln, "//")

IsHeader(ln) == startswith(ln, "[") /\ endswith(ln, "]")

\* The slice taken as ln[0:] : the brackets stay in the name.
HeaderName_KeepsBrackets(ln) == ln

\* ln[1:-1]
HeaderName(ln) == SubSeq(ln, 2, Len(ln) - 1)

\* EndTimeOf with the hold-flag test left out.
EndTimeOf_AnyType(parts, type_val) ==
  IF Len(parts) >= 6
  THEN LET m == re_match(parts[6])
       IN  IF m # None /\ int(m[1]).ok THEN Some(int(m[1]).val) ELSE None
  ELSE None

\* The end time of a hold note: the digits before the colon of objectParams,
\* read only when the hold flag is set and a sixth field exists.
EndTimeOf(parts, type_val) ==
  IF BitAnd128(type_val) # 0 /\ Len(parts) >= 6
  THEN LET m == re_match(parts[6])
       IN  IF m # None /\ int(m[1]).ok THEN Some(int(m[1]).val) ELSE None
  ELSE None

\* ParseHitObject without the field count test: a short line is an error.
ParseHitObject_NoLengthCheck(ln) ==
  LET parts == split(ln)
  IN  IF Len(parts) < 5 THEN [kind |-> "error"]
      ELSE LET x == int(parts[1])
               time == int(parts[3])
               type_val == int(parts[4])
           IN  IF ~(x.ok /\ time.ok /\ type_val.ok) THEN [kind |-> "error"]
               ELSE [kind |-> "note",
                     note |-> [x |-> x.val, time |-> time.val,
                               type |-> type_val.val,
                               end_time |-> EndTimeOf(parts, type_val.val)]]

\* One line of the [HitObjects] section: "skip" (fewer than 5 fields),
\* "error" (int() raises ValueError) or "note".
ParseHitObject(ln) ==
  LET parts == split(ln)
  IN  IF Len(parts) < 5 THEN [kind |-> "skip"]
      ELSE LET x == int(parts[1])
               time == int(parts[3])
               type_val == int(parts[4])
           IN  IF ~(x.ok /\ time.ok /\ type_val.ok) THEN [kind |-> "error"]
               ELSE [kind |-> "note",
                     note |-> [x |-> x.val, time |-> time.val,
                               type |-> type_val.val,
                               end_time |-> EndTimeOf(parts, type_val.val)]]

InLoop == pc = "parse" /\ i <= Len(lines)

\* One pass through the body of "for ln in lines": the line is stripped, then
\* skipped, taken as a section header, parsed as a hit object, kept as a
\* timing point or ignored, in the order of the code's tests.
ParseLine ==
  /\ InLoop
  /\ LET ln == strip(lines[i])
     IN  IF IsBlankOrComment(ln)
         THEN /\ i' = i + 1
              /\ UNCHANGED <<section, hitobjects, timing_points, pc>>
         ELSE IF IsHeader(ln)
         THEN /\ section' = Some(HeaderName(ln))
              /\ i' = i + 1
              /\ UNCHANGED <<hitobjects, timing_points, pc>>
         ELSE IF section = Some(HitObjectsName)
         THEN LET r == ParseHitObject(ln)
              IN  IF r.kind = "skip"
                  THEN /\ i' = i + 1
                       /\ UNCHANGED <<section, hitobjects, timing_points, pc>>
                  ELSE IF r.kind = "error"
                  \* int() raises ValueError; nothing catches it, the program ends.
                  THEN /\ pc' = "raised"
                       /\ UNCHANGED <<i, section, hitobjects, timing_points>>
                  ELSE /\ hitobjects' = Append(hitobjects, r.note)
                       /\ i' = i + 1
                       /\ UNCHANGED <<section, timing_points, pc>>
         ELSE IF section = Some(TimingPointsName)
         THEN /\ timing_points' = Append(timing_points, ln)
              /\ i' = i + 1
              /\ UNCHANGED <<section, hitobjects, pc>>
         ELSE /\ i' = i + 1
              /\ UNCHANGED <<section, hitobjects, timing_points, pc>>
  /\ UNCHANGED <<lines, keys, notes, lua>>
  /\ UNCHANGED mapVars

ParseReturn ==
  /\ pc = "parse"
  /\ i > Len(lines)
  /\ pc' = "parsed"
  /\ UNCHANGED <<lines, i, section, hitobjects, timing_points, keys, notes, lua>>
  /\ UNCHANGED mapVars

(***************************************************************************)
(* map_column_x_to_Vectra_x.  The code divides in floating point; for the  *)
(* playfield width 512 and the key counts of this model every quotient it  *)
(* truncates is the truncation of the exact quotient, so the arithmetic is *)
(* done on exact fractions.                                                *)
(***************************************************************************)
\* int(a / b) for b > 0: truncation toward zero.
TruncDiv(a, b) == IF a >= 0 THEN a \div b ELSE 0 - ((0 - a) \div b)

\* ClampColumn without the upper clamp.
ClampColumn_NoUpper(col, k) == IF col < 0 THEN 0 ELSE col

\* ClampColumn that wraps around instead of clamping.
ClampColumn_Wrap(col, k) == col % k

ClampColumn(col, k) == IF col < 0 THEN 0 ELSE IF col >= k THEN k - 1 ELSE col

\* map_column_x_to_Vectra_x returning the left edge of the column.
map_column_x_to_Vectra_x_LeftEdge(x, k, W) ==
  LET col == IF TruncDiv(x * k, W) < 0 THEN 0
             ELSE IF TruncDiv(x * k, W) >= k THEN k - 1 ELSE TruncDiv(x * k, W)
  IN  TruncDiv(col * W, k)

map_column_x_to_Vectra_x(x, k, W) ==
  LET col == ClampColumn(TruncDiv(x * k, W), k)
  IN  TruncDiv((2 * col + 1) * W, 2 * k)

(***************************************************************************)
(* main: sorted(hitobjects, key=time), a stable sort.                      *)
(***************************************************************************)
\* InsertByTime that puts a note before the notes of the same time.
RECURSIVE InsertByTime_BeforeEqual(_, _)
InsertByTime_BeforeEqual(sorted, n) ==
  IF sorted = <<>> THEN <<n>>
  ELSE IF sorted[Len(sorted)].time < n.time THEN Append(sorted, n)
       ELSE Append(InsertByTime_BeforeEqual(SubSeq(sorted, 1, Len(sorted) - 1), n),
                   sorted[Len(sorted)])

RECURSIVE InsertByTime(_, _)
InsertByTime(sorted, n) ==
  IF sorted = <<>> THEN <<n>>
  ELSE IF sorted[Len(sorted)].time <= n.time THEN Append(sorted, n)
       ELSE Append(InsertByTime(SubSeq(sorted, 1, Len(sorted) - 1), n),
                   sorted[Len(sorted)])

RECURSIVE SortedByTime(_)
SortedByTime(s) ==
  IF s = <<>> THEN <<>>
  ELSE InsertByTime(SortedByTime(SubSeq(s, 1, Len(s) - 1)), s[Len(s)])

SortNotes ==
  /\ pc = "parsed"
  /\ notes' = SortedByTime(hitobjects)
  /\ pc' = "sorted"
  /\ UNCHANGED <<lines, i, section, hitobjects, timing_points, keys, lua>>
  /\ UNCHANGED mapVars

(***************************************************************************)
(* generate_map_lua: the chart length and the note table.                  *)
(***************************************************************************)
MsPerSecond == 1000

KeysRange == 1..MaxKeys

\* --keys: the default and the largest key count of the model.
ArgsKeys == {DefaultKeys, MaxKeys}

\* n['end_time'] or n['time']: None and 0 are both falsy.
EndOrTime(n) ==
  IF n.end_time # None /\ n.end_time[1] # 0 THEN n.end_time[1] ELSE n.time

RECURSIVE SeqMax(_)
SeqMax(s) ==
  IF Len(s) = 1 THEN s[1]
  ELSE LET m == SeqMax(SubSeq(s, 1, Len(s) - 1))
       IN  IF s[Len(s)] > m THEN s[Len(s)] ELSE m

MaxTime(ns) == IF ns # <<>> THEN SeqMax([j \in 1..Len(ns) |-> EndOrTime(ns[j])]) ELSE 0

\* ChartLength without the added second.
ChartLength_NoPlusOne(ns) == MaxTime(ns) \div MsPerSecond

ChartLength(ns) == (MaxTime(ns) \div MsPerSecond) + 1

RenderNote(n, k) ==
  <<NoteType, map_column_x_to_Vectra_x(n.x, k, osu_playfield_width),
    NoteSpeed, SliderLen, n.time>>

generate_map_lua(ns, k) ==
  [length |-> ChartLength(ns),
   notes |-> [j \in 1..Len(ns) |-> RenderNote(ns[j], k)]]

\* The key count is args.keys, read here for the first time.
GenerateMapLua ==
  /\ pc = "sorted"
  /\ \E k \in ArgsKeys :
       /\ keys' = k
       /\ lua' = Some(generate_map_lua(notes, k))
  /\ pc' = "written"
  /\ UNCHANGED <<lines, i, section, hitobjects, timing_points, notes>>
  /\ UNCHANGED mapVars

(***************************************************************************)
(* The chart files of the model: the lines a chart is made of.             *)
(***************************************************************************)
LineSet ==
  { "", "//c", "[HitObjects]", " [TimingPoints] ", "[General]",
    "0,0,1000,1,0,0:0:0:0:", "480,192,500,128,0,1500:0",
    "200,0,1000,128,0,0:0", "64,0,0", "abc,0,7,1,0" }

Charts == UNION { [1..n -> LineSet] : n \in 0..MaxLines }

Init ==
  /\ lines \in Charts
  /\ keys = DefaultKeys
  /\ i = 1
  /\ section = None
  /\ hitobjects = <<>>
  /\ timing_points = <<>>
  /\ pc = "parse"
  /\ notes = <<>>
  /\ lua = None
  /\ mx = 0
  /\ mkeys = DefaultKeys
  /\ mr = None
  /\ mpx = None
  /\ mprev = None

Next ==
  \/ ParseLine
  \/ ParseReturn
  \/ SortNotes
  \/ GenerateMapLua

Spec == Init /\ [][Next]_vars

(***************************************************************************)
(* map_column_x_to_Vectra_x called on its own: a first call on any x, then *)
(* a second call on an x that is not smaller, the first call being kept.   *)
(***************************************************************************)
XRange == (0 - MaxOut)..(osu_playfield_width + MaxOut)

InitMap ==
  /\ lines = <<>>
  /\ keys = DefaultKeys
  /\ i = 1
  /\ section = None
  /\ hitobjects = <<>>
  /\ timing_points = <<>>
  /\ pc = "map"
  /\ notes = <<>>
  /\ lua = None
  /\ mx \in XRange
  /\ mkeys \in KeysRange
  /\ mr = None
  /\ mpx = None
  /\ mprev = None

MapFirst ==
  /\ pc = "map"
  /\ mr = None
  /\ mr' = Some(map_column_x_to_Vectra_x(mx, mkeys, osu_playfield_width))
  /\ UNCHANGED <<mx, mkeys, mpx, mprev>>
  /\ UNCHANGED parseVars

MapLater ==
  /\ pc = "map"
  /\ mr # None
  /\ mpx = None
  /\ \E x2 \in XRange :
       /\ x2 >= mx
       /\ mx' = x2
       /\ mr' = Some(map_column_x_to_Vectra_x(x2, mkeys, osu_playfield_width))
  /\ mpx' = Some(mx)
  /\ mprev' = mr
  /\ UNCHANGED mkeys
  /\ UNCHANGED parseVars

NextMap ==
  \/ MapFirst
  \/ MapLater

SpecMap == InitMap /\ [][NextMap]_vars

(***************************************************************************)
(* The properties.                                                         *)
(***************************************************************************)
Written == pc = "written"

Endpoint(n) == IF n.end_time # None THEN n.end_time[1] ELSE n.time

MaxEndpoint(ns) == SeqMax([j \in 1..Len(ns) |-> Endpoint(ns[j])])

\* C2 as stated: for a non-empty note list the emitted length is
\* floor(maxEndpoint / 1000) + 1, maxEndpoint taking endTime whenever it is
\* present, 0 included.
C2_LengthFromEndpoints ==
  (Written /\ notes # <<>>) =>
     lua[1].length = (MaxEndpoint(notes) \div MsPerSecond) + 1

\* C3 as stated: parse_osu_hitobjects raises no error, whatever the text.
C3_NeverRaises == pc # "raised"

\* C4 as stated: every parsed note with an endTime has endTime >= time.
C4_EndTimeNotBeforeTime ==
  \A j \in 1..Len(hitobjects) :
     hitobjects[j].end_time # None => hitobjects[j].end_time[1] >= hitobjects[j].time

\* C4, amended: every parsed note with an endTime has the hold flag 128 set
\* in its type and endTime >= 0; endTime is not compared with time.
C4_EndTimeOfHoldNotes ==
  \A j \in 1..Len(hitobjects) :
     hitobjects[j].end_time # None =>
        /\ hitobjects[j].end_time[1] >= 0
        /\ BitAnd128(hitobjects[j].type) = HoldFlag

C4_Witness ==
  /\ pc = "parsed"
  /\ \E j, k \in 1..Len(hitobjects) :
       /\ hitobjects[j].end_time # None
       /\ hitobjects[j].end_time[1] < hitobjects[j].time
       /\ hitobjects[k].end_time # None
       /\ hitobjects[k].end_time[1] > hitobjects[k].time

\* C5: every value map_column_x_to_Vectra_x returns lies in [0, playfieldWidth),
\* for x below 0 and x at or above the width too.
C5_ResultInPlayfield ==
  /\ mr # None => (0 <= mr[1] /\ mr[1] < osu_playfield_width)
  /\ mprev # None => (0 <= mprev[1] /\ mprev[1] < osu_playfield_width)

C5_Witness ==
  /\ mpx # None /\ mpx[1] * mkeys <= 0 - osu_playfield_width
  /\ mx >= osu_playfield_width
  /\ mr # None
  /\ mkeys > DefaultKeys

\* C6: for a fixed key count, x1 <= x2 implies map(x1) <= map(x2).
C6_Monotonic ==
  (mpx # None /\ mpx[1] <= mx) => mprev[1] <= mr[1]

C6_Witness ==
  /\ mpx # None /\ mpx[1] < mx
  /\ mprev[1] < mr[1]
  /\ mkeys > DefaultKeys
  /\ mpx[1] < 0

\* The centre of the clamped column as the claim writes it.
Min(a, b) == IF a < b THEN a ELSE b
Max(a, b) == IF a > b THEN a ELSE b
ClaimedColumn(x, k, W) == Min(Max((x * k) \div W, 0), k - 1)
ClaimedCentre(x, k, W) == ((2 * ClaimedColumn(x, k, W) + 1) * W) \div (2 * k)

RECURSIVE LastHeaderBefore(_)
LastHeaderBefore(k) ==
  IF k <= 1 THEN None
  ELSE LET prev == strip(lines[k - 1])
       IN  IF startswith(prev, "[") /\ endswith(prev, "]")
           THEN Some(SubSeq(prev, 2, Len(prev) - 1))
           ELSE LastHeaderBefore(k - 1)

IsSkipped(k) == LET ln == strip(lines[k]) IN ln = "" \/ startswith(ln, "//")

IsHeaderLine(k) ==
  LET ln == strip(lines[k])
  IN  ln # "" /\ ~startswith(ln, "//") /\ startswith(ln, "[") /\ endswith(ln, "]")

InHitObjects(k) ==
  ~IsSkipped(k) /\ ~IsHeaderLine(k) /\ LastHeaderBefore(k) = Some("HitObjects")

Fields(k) == split(strip(lines[k]))

ShortLine(k) == InHitObjects(k) /\ Len(Fields(k)) < 5

WellFormedLine(k) ==
  /\ InHitObjects(k)
  /\ LET f == Fields(k)
     IN  Len(f) >= 5 /\ int(f[1]).ok /\ int(f[3]).ok /\ int(f[4]).ok

\* The well-formed hit-object lines among the first n lines, in order.
RECURSIVE WellFormedUpTo(_)
WellFormedUpTo(n) ==
  IF n = 0 THEN <<>>
  ELSE IF WellFormedLine(n) THEN Append(WellFormedUpTo(n - 1), n)
       ELSE WellFormedUpTo(n - 1)

\* C8: the rendered tuples are the parsed notes in ascending time order with
\* a stable tie-break: a permutation of the parsed notes, times
\* non-decreasing, equal times in file order; notes (x=0, time=1000) then
\* (x=480, time=500) at keys = 4 render as (500, 448) then (1000, 64).
C8_StableTimeOrder ==
  Written =>
    LET n == Len(hitobjects)
        out == lua[1].notes
    IN  /\ Len(out) = n
        /\ \E p \in [1..n -> 1..n] :
             /\ \A a, b \in 1..n : a # b => p[a] # p[b]
             /\ \A a \in 1..n : out[a] = RenderNote(hitobjects[p[a]], keys)
             /\ \A a, b \in 1..n :
                  a < b => \/ hitobjects[p[a]].time < hitobjects[p[b]].time
                           \/ /\ hitobjects[p[a]].time = hitobjects[p[b]].time
                              /\ p[a] < p[b]
        /\ \A a \in 1..(n - 1) : out[a][5] <= out[a + 1][5]
        /\ (/\ keys = 4 /\ n = 2
            /\ hitobjects[1].x = 0 /\ hitobjects[1].time = 1000
            /\ hitobjects[2].x = 480 /\ hitobjects[2].time = 500)
           => out = <<<<1, 448, 400, 0, 500>>, <<1, 64, 400, 0, 1000>>>>

C8_Witness ==
  /\ Written /\ keys = 4 /\ Len(hitobjects) = 3
  /\ hitobjects[1].time = hitobjects[3].time
  /\ hitobjects[2].time < hitobjects[1].time
  /\ lua[1].notes[2][2] # lua[1].notes[3][2]

\* C9: a [HitObjects] line with fewer than 5 fields adds no note and never
\* stops the parse, and every well-formed hit-object line read so far has
\* its note, with x the integer of field 0 and time the integer of field 2.
C9_ShortLinesSkipped ==
  /\ pc = "raised" => ~ShortLine(i)
  /\ LET wf == WellFormedUpTo(i - 1)
     IN  /\ Len(hitobjects) = Len(wf)
         /\ \A j \in 1..Len(wf) :
              LET f == Fields(wf[j])
              IN  /\ hitobjects[j].x = int(f[1]).val
                  /\ hitobjects[j].time = int(f[3]).val

C9_Witness ==
  /\ pc = "parsed"
  /\ \E k, j \in 1..Len(lines) :
       k < j /\ ShortLine(k) /\ WellFormedLine(j) /\ hitobjects # <<>>

\* One step of the parse, for C10: a line adds a note only when the most
\* recent header before it is [HitObjects] and a timing point only when it is [TimingPoints]; a header
\* line switches the current section; blank and comment lines, lines before
\* any header and lines of any other section change neither list.
C10_SectionStep ==
  (pc = "parse" /\ i <= Len(lines)) =>
    /\ hitobjects' # hitobjects =>
         (~IsSkipped(i) /\ ~IsHeaderLine(i) /\ LastHeaderBefore(i) = Some("HitObjects"))
    /\ timing_points' # timing_points =>
         (~IsSkipped(i) /\ ~IsHeaderLine(i) /\ LastHeaderBefore(i) = Some("TimingPoints"))
    /\ IsHeaderLine(i) => section' = Some(SubSeq(strip(lines[i]), 2, Len(strip(lines[i])) - 1))
    /\ (\/ IsSkipped(i)
        \/ IsHeaderLine(i)
        \/ LastHeaderBefore(i) \notin {Some("HitObjects"), Some("TimingPoints")})
       => (hitobjects' = hitobjects /\ timing_points' = timing_points)
    /\ ~IsHeaderLine(i) => section' = section

\* C10: every step of the line-by-line parse obeys the section rule above:
\* notes only under [HitObjects], timing points only under [TimingPoints],
\* a header switches the section, every other line leaves both lists alone.
C10_SectionsDecide == [][C10_SectionStep]_vars

C10_Witness ==
  /\ pc = "parsed"
  /\ hitobjects # <<>>
  /\ timing_points # <<>>
  /\ section = Some("HitObjects")

====
